---- MODULE Spec2Model ----
(***************************************************************************)
(* The Brainfuck runner of src/index.js: the fetch-decode-execute loop of  *)
(* interpretBrainfuck over a circular byte tape, its two safety guards     *)
(* (iteration cap, infinite-loop heuristic), the debug pause, the SIGINT   *)
(* handler and the run command that reports the result.                    *)
(*                                                                         *)
(* A character is a one-character string; a program is a sequence of       *)
(* characters.  codePointer and pointer are 0-based as in the source, so   *)
(* code[i] of the source is CharAt(code, i).  An output character and an   *)
(* input character are represented by their UTF-16 code unit.              *)
(***************************************************************************)
EXTENDS Integers, Sequences, FiniteSets, TLC

\* ---------------------------------------------------------------- bounds
\* Longest source text enumerated over the whole alphabet.
MaxLen == 3
\* Tape length of the enumerated runs (30000 in the source).
TapeLen == 3
\* Iteration ceiling of the enumerated runs (10000000 in the source).
Ceiling == 6
\* Tape length of the reference-program runs.
GoldenTape == 8
\* How far a bracket scan is followed once it has left the program text.  No
\* character outside the text is a bracket, so a scan that has left the text
\* keeps its bracketCount and never ends; the states past ScanSlack differ
\* from the last one followed only in codePointer.
ScanSlack == 2

\* ------------------------------------------------------ program constants
MAX_ITERATIONS == 10000000
SAME_POSITION_LIMIT == 1000
HISTORY_LIMIT == 1000

\* ------------------------------------------------------------- alphabets
Instructions == {">", "<", "+", "-", ".", ",", "[", "]"}
Marker == "#"
\* "x" stands for any character that is neither an instruction nor the marker.
Alphabet == Instructions \cup {Marker, "x"}

Rep(ch, n) == [i \in 1..n |-> ch]

\* README.md line 72.
HelloWorld ==
  << "+", "+", "+", "+", "+", "+", "+", "+", "[", ">", "+", "+", "+", "+", "[", ">",
     "+", "+", ">", "+", "+", "+", ">", "+", "+", "+", ">", "+", "<", "<", "<", "<",
     "-", "]", ">", "+", ">", "+", ">", "-", ">", ">", "+", "[", "<", "]", "<", "-",
     "]", ">", ">", ".", ">", "-", "-", "-", ".", "+", "+", "+", "+", "+", "+", "+",
     ".", ".", "+", "+", "+", ".", ">", ">", ".", "<", "-", ".", "<", ".", "+", "+",
     "+", ".", "-", "-", "-", "-", "-", "-", ".", "-", "-", "-", "-", "-", "-", "-",
     "-", ".", ">", ">", "+", ".", ">", "+", "+", "." >>

\* "Hello World!\n" as UTF-16 code units.
HelloText == << 72, 101, 108, 108, 111, 32, 87, 111, 114, 108, 100, 33, 10 >>

\* spec.md section 8, bracket semantics.
BracketProgram ==
  << "+", "+", "+", "+", "[", ">", "+", "+", "+", "+", "<", "-", "]", ">", "." >>

\* Read a cell and print it, increment it 256 times and print it again,
\* clear it with the [-] idiom, then step below zero and off both ends of
\* the tape.
WrapProgram ==
  << ",", "." >> \o Rep("+", 256) \o << ".", "[", "-", "]", "-", "<", ">" >>

TightLoop == << "+", "[", "]" >>

\* Two markers, each in front of an instruction.
TwoMarkerProgram == << "#", "+", "#", "+" >>

\* A loop whose body holds a loop that is skipped: both scans meet nesting.
NestedProgram == << "+", "[", ">", "[", "]", "<", "]" >>

\* spec.md section 8, breakpoint extraction.
BreakpointProgram == << "+", "+", "#", "+", "." >>

\* ------------------------------------------------------- pure operations
\* code[i]: the character at 0-based index i, undefined outside the text.
CharAt(c, i) == IF i \in 0..(Len(c) - 1) THEN c[i + 1] ELSE "undefined"

\* Mutant: the position after the marker is recorded.
FindBreakpointsShifted(src, dbg) ==
  IF dbg THEN {i + 1 : i \in {j \in 0..(Len(src) - 1) : src[j + 1] = Marker}} ELSE {}

\* The indices of the marker characters in the source text, 0-based.
FindBreakpoints(src, dbg) ==
  IF dbg THEN {i \in 0..(Len(src) - 1) : src[i + 1] = Marker} ELSE {}

\* code.replace(/#/g, '')
NotMarker(ch) == ch # Marker

StripMarkers(src) == SelectSeq(src, NotMarker)

\* memory.length
MemLength(m) == Cardinality(DOMAIN m)

\* Mutant: the store keeps the value as it is.
ToUint8Unclamped(x) == x

\* A store into a Uint8Array keeps the value modulo 256.
ToUint8(x) == x % 256

MoveRight(p, n) == (p + 1) % n

MoveLeft(p, n) == IF p - 1 < 0 THEN n - 1 ELSE p - 1

\* Mutant: the increment wraps one value too early.
IncrementMod255(v) == (v + 1) % 255

Increment(v) == (v + 1) % 256

Decrement(v) == IF v - 1 < 0 THEN 255 ELSE v - 1

\* String.fromCharCode keeps the low 16 bits of its argument.
FromCharCode(v) == v % 65536

\* input.charCodeAt(0) || 0: the first code unit of the line; NaN (empty
\* line) and 0 both give 0.
CharCodeAt0(line) == IF Len(line) = 0 THEN 0 ELSE line[1]

\* Line 227: a `[` jumps forward when the current cell is zero.
SkipLoop(cell) == cell = 0

\* Mutant: the `]` tests the cell the wrong way round.
RepeatLoopInverted(cell) == cell = 0

\* Line 237: a `]` jumps back when the current cell is not zero.
RepeatLoop(cell) == cell # 0

\* Mutant: the forward scan does not count the `]` it passes.
CountForwardMissesClose(count, ch) == count + (IF ch = "[" THEN 1 ELSE 0)

\* Lines 231-232: the forward scan counts `[` up and `]` down.
CountForward(count, ch) ==
  count + (IF ch = "[" THEN 1 ELSE 0) - (IF ch = "]" THEN 1 ELSE 0)

\* Mutant: the backward scan does not count the `]` it passes.
CountBackwardFlat(count, ch) == count - (IF ch = "[" THEN 1 ELSE 0)

\* Lines 241-242: the backward scan counts `[` down and `]` up.
CountBackward(count, ch) ==
  count - (IF ch = "[" THEN 1 ELSE 0) + (IF ch = "]" THEN 1 ELSE 0)

\* Mutant: the ceiling is met one cycle early.
CapExceededEarly(its, max) == its >= max

\* Mutant: every debug cycle asks for a command.
PausesAlways(step, bps, cp) == TRUE

\* Lines 150 and 199: showDebugInfo asks for a command in step mode and at a
\* recorded breakpoint position.
Pauses(step, bps, cp) == step \/ cp \in bps

\* index.js 199-203 calls showDebugInfo in every debug cycle; interpreter.js
\* 101-103 only in step mode and at a recorded breakpoint position.
CallsShowDebugInfo(mod, step, bps, cp) == ~mod \/ Pauses(step, bps, cp)

\* Whether showDebugInfo asks for a command: index.js 150 tests the engine's
\* stepMode and breakpoints, debug.js 71 the stepMode it was created with.
Prompts(mod, captured, step, bps, cp) ==
  IF mod THEN captured ELSE Pauses(step, bps, cp)

\* iterations++ > MAX_ITERATIONS compares the value before the increment.
CapExceeded(its, max) == its > max

\* The fingerprint `${pointer},${codePointer},${memoryValue}`: three decimal
\* numerals joined by commas, which is one-to-one on triples of integers.
Fingerprint(p, cp, v) == <<p, cp, v>>

\* Mutant: the fingerprint is never remembered.
DetectInfiniteLoopForgetful(p, cp, v, history) ==
  [ret |-> Fingerprint(p, cp, v) \in history, history |-> history]

DetectInfiniteLoop(p, cp, v, history) ==
  LET state == Fingerprint(p, cp, v) IN
  IF state \in history
  THEN [ret |-> TRUE, history |-> history]
  ELSE LET added == history \cup {state} IN
       [ret |-> FALSE,
        history |-> IF Cardinality(added) > HISTORY_LIMIT THEN {} ELSE added]

\* Mutant: the fingerprint is looked up in every cycle, whether or not the
\* instruction pointer repeats.
LoopGuardEveryCycle(cp, last, count, p, v, history) ==
  LET n == IF cp = last THEN count + 1 ELSE 0
      d == DetectInfiniteLoop(p, cp, v, history)
  IN [count |-> n, history |-> d.history,
      fire |-> (cp = last /\ n > SAME_POSITION_LIMIT) \/ d.ret]

\* Lines 184-195: the same-position counter and the short-circuited call of
\* detectInfiniteLoop.  fire = the guard breaks out of the loop.
LoopGuard(cp, last, count, p, v, history) ==
  IF cp = last
  THEN IF count + 1 > SAME_POSITION_LIMIT
       THEN [count |-> count + 1, history |-> history, fire |-> TRUE]
       ELSE LET d == DetectInfiniteLoop(p, cp, v, history) IN
            [count |-> count + 1, history |-> d.history, fire |-> d.ret]
  ELSE [count |-> 0, history |-> history, fire |-> FALSE]

\* Mutant: an aborted run returns no output.
ResultDropsPartial(out, its, running) ==
  [returned |-> TRUE, output |-> IF running THEN out ELSE <<>>,
   iterations |-> its,
   status |-> IF running THEN "completed" ELSE "terminated"]

\* The object returned by interpretBrainfuck (executionTime is wall-clock
\* time and is left out).
Result(out, its, running) ==
  [returned |-> TRUE, output |-> out, iterations |-> its,
   status |-> IF running THEN "completed" ELSE "terminated"]

NoResult == [returned |-> FALSE, output |-> <<>>, iterations |-> 0, status |-> "none"]

\* What the run command prints and logs for a result.
Report(res, dbg) ==
  [printed |-> IF dbg THEN "nothing"
               ELSE IF res.status = "completed" THEN "Output" ELSE "Partial Output",
   output |-> res.output, iterations |-> res.iterations, status |-> res.status]

NoReport == [printed |-> "none", output |-> <<>>, iterations |-> 0, status |-> "none"]

\* ------------------------------------------------------------------ state
VARIABLES
  modular,            \* TRUE: the interpreter of interpreter.js with the debug
                      \* interface of debug.js; FALSE: the one of index.js
  capturedStepMode,   \* the stepMode handed to createDebugInterface
  source,             \* the code argument as passed in
  code,               \* the code after the markers are removed
  debug,              \* the debug argument
  breakpoints,        \* marker positions found in the source text
  maxIterations,      \* MAX_ITERATIONS of this run
  memory,             \* the Uint8Array
  pointer,            \* tape cursor
  output,             \* accumulated output
  codePointer,        \* instruction pointer
  iterations,
  isRunning,
  loopHistory,
  lastCodePointer,
  samePositionCount,
  stepMode,
  bracketCount,       \* counter of the bracket scan in progress
  pc,                 \* where interpretBrainfuck stands
  sigint,             \* "none", "pending" (raised, handler not yet run), "handled"
  command,            \* the line read by showDebugInfo, "none" outside it
  seen,               \* the fingerprint of every cycle so far, with whether
                      \* its codePointer repeated the previous cycle's
  typed,              \* the lines typed at the `,` instructions so far
  reason,             \* which statement ended the run
  result,             \* the value returned to the caller
  report,             \* what the run command printed and logged
  execCount,          \* per code position, how often its instruction was executed
  emitted             \* the cell values the `.` instructions have output

vars == <<modular, capturedStepMode, source, code, debug, breakpoints, maxIterations, memory, pointer,
          output, codePointer, iterations, isRunning, loopHistory,
          lastCodePointer, samePositionCount, stepMode, bracketCount, pc,
          sigint, command, seen, typed, reason, result, report, execCount,
          emitted>>

params == <<modular, capturedStepMode, source, code, debug, breakpoints,
            maxIterations>>
guardVars == <<loopHistory, lastCodePointer, samePositionCount>>
tapeVars == <<memory, pointer>>
outVars == <<result, report>>
envVars == <<sigint, command, seen, typed>>

\* Lines 90-136 (interpreter.js 15-61): the state of the engine when the
\* while loop is first reached.
Construct(src, dbg, max, len) ==
  /\ source = src
  /\ debug = dbg
  /\ breakpoints = FindBreakpoints(src, dbg)
  /\ code = StripMarkers(src)
  /\ maxIterations = max
  /\ memory = [i \in 0..(len - 1) |-> 0]
  /\ pointer = 0
  /\ output = <<>>
  /\ codePointer = 0
  /\ iterations = 0
  /\ isRunning = TRUE
  /\ loopHistory = {}
  /\ lastCodePointer = -1
  /\ samePositionCount = 0
  /\ stepMode = FALSE
  /\ bracketCount = 0
  /\ pc = "loop"
  /\ sigint = "none"
  /\ command = "none"
  /\ seen = {}
  /\ typed = <<>>
  /\ reason = "none"
  /\ result = NoResult
  /\ report = NoReport
  /\ execCount = [i \in 0..(Len(StripMarkers(src)) - 1) |-> 0]
  /\ emitted = <<>>

\* interpretBrainfuck of index.js, whose showDebugInfo is a closure over the
\* engine's variables.
Start(src, dbg, max, len) ==
  /\ Construct(src, dbg, max, len)
  /\ modular = FALSE
  /\ capturedStepMode = FALSE

\* interpretBrainfuck of interpreter.js: createDebugInterface is called once,
\* before the loop, with the value stepMode has then.
ModularStart(src, dbg, max, len) ==
  /\ Construct(src, dbg, max, len)
  /\ modular = TRUE
  /\ capturedStepMode = stepMode

\* Every source text of at most MaxLen characters.
ShortSources == UNION {[1..n -> Alphabet] : n \in 0..MaxLen}

\* Straight-line texts long enough to meet the iteration ceiling.
LongSources ==
  {Rep(ch, n) : ch \in {"+", ".", "x"}, n \in (MaxLen + 1)..(Ceiling + 3)}

Sources == ShortSources \cup LongSources \cup {BreakpointProgram, TwoMarkerProgram, NestedProgram}

Init == \E src \in Sources, dbg \in BOOLEAN : Start(src, dbg, Ceiling, TapeLen)

\* ---------------------------------------------------------------- inputs
\* Lines the user may type at a `,`: the empty line, a character above 255,
\* and a line of two characters.
InputLines == {<<>>, <<300>>, <<255, 66>>}

\* Every line of one character with a code in 0..255.
ByteLines == {<<c>> : c \in 0..255}

\* Lines the user may type at the debug prompt.
Commands == {"c", "s", "q", "Q", ""}

\* Mutant: the command is compared as typed.
ToLowerCaseAsTyped(cmd) == cmd

\* command.toLowerCase()
ToLowerCase(cmd) ==
  IF cmd = "Q" THEN "q" ELSE IF cmd = "S" THEN "s" ELSE IF cmd = "C" THEN "c" ELSE cmd

\* Mutant: `s` is not acted on.
StepModeAfterIgnoresStep(c, step) == IF c = "c" THEN FALSE ELSE step

\* Lines 161-166: `s` enables step mode, `c` disables it, anything else
\* leaves it as it is.
StepModeAfter(c, step) == IF c = "s" THEN TRUE ELSE IF c = "c" THEN FALSE ELSE step

\* --------------------------------------------------------------- actions
\* Lines 206-247: the switch on code[codePointer] and the codePointer++
\* after it.  A `,` suspends at the question; a bracket that has to jump
\* enters its scan loop with bracketCount = 1.
Execute ==
  LET ins == CharAt(code, codePointer)
      cell == memory[pointer]
      next == IF ins = "," THEN "input"
              ELSE IF ins = "[" /\ SkipLoop(cell) THEN "scanForward"
              ELSE IF ins = "]" /\ RepeatLoop(cell) THEN "scanBackward"
              ELSE "loop"
  IN
  /\ pointer' = IF ins = ">" THEN MoveRight(pointer, MemLength(memory))
                ELSE IF ins = "<" THEN MoveLeft(pointer, MemLength(memory))
                ELSE pointer
  /\ memory' = IF ins = "+" THEN [memory EXCEPT ![pointer] = ToUint8(Increment(cell))]
               ELSE IF ins = "-" THEN [memory EXCEPT ![pointer] = ToUint8(Decrement(cell))]
               ELSE memory
  /\ output' = IF ins = "." THEN Append(output, FromCharCode(cell)) ELSE output
  /\ emitted' = IF ins = "." THEN Append(emitted, cell) ELSE emitted
  /\ execCount' = [execCount EXCEPT ![codePointer] = @ + 1]
  /\ pc' = next
  /\ bracketCount' = IF next \in {"scanForward", "scanBackward"} THEN 1 ELSE 0
  /\ codePointer' = IF next = "loop" THEN codePointer + 1 ELSE codePointer

execVars == <<memory, pointer, output, emitted, execCount, bracketCount, codePointer>>

\* Lines 174-203: one pass from the top of the while loop to the first
\* suspension point (or, when nothing suspends, to the end of the body).
Cycle ==
  /\ pc = "loop"
  /\ codePointer < Len(code) /\ isRunning
  /\ iterations' = iterations + 1
  /\ IF CapExceeded(iterations, maxIterations)
     THEN /\ isRunning' = FALSE
          /\ reason' = "iteration-limit-exceeded"
          /\ pc' = "returned"
          /\ result' = Result(output, iterations', FALSE)
          /\ UNCHANGED <<guardVars, execVars, report, seen>>
     ELSE LET g == LoopGuard(codePointer, lastCodePointer, samePositionCount,
                             pointer, memory[pointer], loopHistory) IN
          /\ samePositionCount' = g.count
          /\ loopHistory' = g.history
          /\ seen' = seen \cup {<<Fingerprint(pointer, codePointer, memory[pointer]),
                                  codePointer = lastCodePointer>>}
          /\ IF g.fire
             THEN /\ isRunning' = FALSE
                  /\ reason' = "infinite-loop-suspected"
                  /\ pc' = "returned"
                  /\ result' = Result(output, iterations', FALSE)
                  /\ UNCHANGED <<lastCodePointer, execVars, report>>
             ELSE /\ lastCodePointer' = codePointer
                  /\ UNCHANGED <<isRunning, reason, outVars>>
                  /\ IF debug /\ CallsShowDebugInfo(modular, stepMode, breakpoints,
                                                     codePointer)
                     THEN /\ pc' = IF Prompts(modular, capturedStepMode, stepMode,
                                              breakpoints, codePointer)
                                   THEN "command" ELSE "delay"
                          /\ UNCHANGED execVars
                     ELSE Execute
  /\ UNCHANGED <<params, stepMode, sigint, command, typed>>

\* Mutant: the pause discards the accumulated output.
DebugCommandClearsOutput ==
  /\ pc = "command"
  /\ sigint # "pending"
  /\ \E cmd \in Commands :
       LET c == ToLowerCase(cmd) IN
       /\ command' = cmd
       /\ isRunning' = IF c = "q" THEN FALSE ELSE isRunning
       /\ reason' = IF c = "q" THEN "user-quit" ELSE reason
       /\ stepMode' = StepModeAfter(c, stepMode)
  /\ pc' = "execute"
  /\ output' = <<>>
  /\ UNCHANGED <<params, memory, pointer, emitted, execCount, bracketCount,
                 codePointer, iterations, guardVars, sigint, seen, typed,
                 outVars>>

\* Lines 156-168: the line typed at the debug prompt is read and acted on,
\* and showDebugInfo returns.  A SIGINT that is pending when the loop
\* suspends is dispatched before the awaited line or timer.
DebugCommand ==
  /\ pc = "command"
  /\ sigint # "pending"
  /\ \E cmd \in Commands :
       LET c == ToLowerCase(cmd) IN
       /\ command' = cmd
       /\ isRunning' = IF c = "q" THEN FALSE ELSE isRunning
       /\ reason' = IF c = "q" THEN "user-quit" ELSE reason
       /\ stepMode' = StepModeAfter(c, stepMode)
  /\ pc' = "execute"
  /\ UNCHANGED <<params, execVars, iterations, guardVars, sigint, seen, typed,
                 outVars>>

\* Line 170: the pacing delay has elapsed and showDebugInfo returns.
DebugDelay ==
  /\ pc = "delay"
  /\ sigint # "pending"
  /\ pc' = "execute"
  /\ UNCHANGED <<params, execVars, iterations, isRunning, reason, stepMode,
                 guardVars, envVars, outVars>>

\* Lines 205-247 of a debug cycle: back from showDebugInfo, the instruction
\* at codePointer is executed.
ExecuteInstruction ==
  /\ pc = "execute"
  /\ Execute
  /\ command' = "none"
  /\ UNCHANGED <<params, iterations, isRunning, reason, stepMode, guardVars,
                 sigint, seen, typed, outVars>>

\* Lines 223-224 and 247: the user's line resolves the question of a `,`.
InputAnswerFrom(lines) ==
  /\ pc = "input"
  /\ sigint # "pending"
  /\ \E line \in lines :
       /\ memory' = [memory EXCEPT ![pointer] = ToUint8(CharCodeAt0(line))]
       /\ typed' = Append(typed, line)
  /\ codePointer' = codePointer + 1
  /\ pc' = "loop"
  /\ UNCHANGED <<params, pointer, output, emitted, execCount, bracketCount,
                 iterations, isRunning, reason, stepMode, guardVars, sigint,
                 command, seen, outVars>>

InputAnswer == InputAnswerFrom(InputLines)

\* Lines 229-233 and 247: one pass of the forward scan of a `[`.
ScanForward ==
  /\ pc = "scanForward"
  /\ codePointer < Len(code) + ScanSlack
  /\ LET at == codePointer + 1
         count == CountForward(bracketCount, CharAt(code, at))
     IN /\ bracketCount' = count
        /\ codePointer' = IF count > 0 THEN at ELSE at + 1
        /\ pc' = IF count > 0 THEN "scanForward" ELSE "loop"
  /\ UNCHANGED <<params, tapeVars, output, emitted, execCount, iterations,
                 isRunning, reason, stepMode, guardVars, envVars, outVars>>

\* Lines 239-243 and 247: one pass of the backward scan of a `]`.
ScanBackward ==
  /\ pc = "scanBackward"
  /\ codePointer > -ScanSlack
  /\ LET at == codePointer - 1
         count == CountBackward(bracketCount, CharAt(code, at))
     IN /\ bracketCount' = count
        /\ codePointer' = IF count > 0 THEN at ELSE at + 1
        /\ pc' = IF count > 0 THEN "scanBackward" ELSE "loop"
  /\ UNCHANGED <<params, tapeVars, output, emitted, execCount, iterations,
                 isRunning, reason, stepMode, guardVars, envVars, outVars>>

\* Lines 174 and 250-267: the while condition fails and the function returns.
Return ==
  /\ pc = "loop"
  /\ ~(codePointer < Len(code) /\ isRunning)
  /\ pc' = "returned"
  /\ reason' = IF isRunning THEN "completed" ELSE reason
  /\ result' = Result(output, iterations, isRunning)
  /\ UNCHANGED <<params, tapeVars, output, emitted, execCount, bracketCount,
                 codePointer, iterations, isRunning, stepMode, guardVars,
                 envVars, report>>

\* Lines 304-322: the run command prints and logs the returned result.
RunCommand ==
  /\ pc = "returned"
  /\ report' = Report(result, debug)
  /\ pc' = "reported"
  /\ UNCHANGED <<params, tapeVars, output, emitted, execCount, bracketCount,
                 codePointer, iterations, isRunning, reason, stepMode,
                 guardVars, envVars, result>>

\* The environment sends SIGINT to the process.
RaiseSigint ==
  /\ sigint = "none"
  /\ pc \notin {"reported", "exited"}
  /\ sigint' = "pending"
  /\ UNCHANGED <<params, tapeVars, output, emitted, execCount, bracketCount,
                 codePointer, iterations, isRunning, reason, stepMode,
                 guardVars, pc, command, seen, typed, outVars>>

\* Suspension points of interpretBrainfuck: only there can a callback run.
Suspended == {"command", "delay", "input"}

\* Lines 110-115: the SIGINT handler, ending in process.exit(0).
HandleSigint ==
  /\ sigint = "pending"
  /\ pc \in Suspended
  /\ isRunning' = FALSE
  /\ reason' = "interrupted"
  /\ sigint' = "handled"
  /\ pc' = "exited"
  /\ UNCHANGED <<params, tapeVars, output, emitted, execCount, bracketCount,
                 codePointer, iterations, stepMode, guardVars, command, seen,
                 typed, outVars>>

Next ==
  \/ Cycle
  \/ DebugCommand
  \/ DebugDelay
  \/ ExecuteInstruction
  \/ InputAnswer
  \/ ScanForward
  \/ ScanBackward
  \/ Return
  \/ RunCommand
  \/ RaiseSigint
  \/ HandleSigint

Spec == Init /\ [][Next]_vars

\* The reference programs, run without debug under the source's own ceiling.
GoldenSources == {HelloWorld, BracketProgram, WrapProgram}

GoldenInit == \E src \in GoldenSources : Start(src, FALSE, MAX_ITERATIONS, GoldenTape)

GoldenNext ==
  \/ Cycle
  \/ InputAnswerFrom(ByteLines)
  \/ ScanForward
  \/ ScanBackward
  \/ Return
  \/ RunCommand

GoldenSpec == GoldenInit /\ [][GoldenNext]_vars

\* Runs without debug in which every enabled step is eventually taken: the
\* loop is synchronous, and a line is always typed at a `,`.
BatchInit == \E src \in Sources : Start(src, FALSE, Ceiling, TapeLen)

BatchNext ==
  \/ Cycle
  \/ InputAnswer
  \/ ScanForward
  \/ ScanBackward
  \/ Return
  \/ RunCommand

FairSpec == BatchInit /\ [][BatchNext]_vars /\ WF_vars(BatchNext)

\* The modular interpreter.  Its showDebugInfo never reaches the command
\* prompt, so the step that reads a command is not among its steps.
ModularInit == \E src \in Sources, dbg \in BOOLEAN : ModularStart(src, dbg, Ceiling, TapeLen)

ModularNext ==
  \/ Cycle
  \/ DebugDelay
  \/ ExecuteInstruction
  \/ InputAnswer
  \/ ScanForward
  \/ ScanBackward
  \/ Return
  \/ RunCommand
  \/ RaiseSigint
  \/ HandleSigint

ModularSpec == ModularInit /\ [][ModularNext]_vars

\* detectInfiniteLoop on its own: a sequence of calls on one history set,
\* each with a fingerprint not yet in the set (the next code position) or
\* with one already recorded.
HistoryInit == Start(<<>>, FALSE, MAX_ITERATIONS, TapeLen)

DetectCall ==
  /\ \E cp \in {Cardinality(loopHistory), 0} :
       loopHistory' = DetectInfiniteLoop(0, cp, 0, loopHistory).history
  /\ UNCHANGED <<params, tapeVars, output, emitted, execCount, bracketCount,
                 codePointer, iterations, isRunning, reason, stepMode,
                 lastCodePointer, samePositionCount, pc, envVars, outVars>>

HistoryNext == DetectCall

HistorySpec == HistoryInit /\ [][HistoryNext]_vars

\* ================================================================ claims
Returned == pc \in {"returned", "reported"}

ZeroTape == \A i \in DOMAIN memory : memory[i] = 0

\* The step executes the instruction ch at codePointer.
Executes(ch) ==
  /\ CharAt(code, codePointer) = ch
  /\ codePointer \in DOMAIN execCount
  /\ execCount'[codePointer] = execCount[codePointer] + 1

\* C1: in every reachable state the tape cursor is in [0, tape length) and
\* every tape cell holds a value in [0, 255], whatever the program and
\* whatever lines are typed at `,`.
C1_TapeInvariant ==
  /\ pointer \in 0..(MemLength(memory) - 1)
  /\ \A i \in DOMAIN memory : memory[i] \in 0..255

\* A line starting with character 300 was stored at the last cell, reached
\* by moving left from cell 0.
C1_Witness ==
  /\ pointer = MemLength(memory) - 1
  /\ memory[pointer] = 300 % 256
  /\ iterations = 2

\* C2 (steps): `+` on 255 gives 0 and adds 1 otherwise, `-` on 0 gives 255
\* and subtracts 1 otherwise, `<` at cursor 0 goes to length-1, `>` at
\* length-1 goes to 0; `+`/`-` change no other cell nor the cursor, `<`/`>`
\* change no cell.
C2_Step ==
  LET cell == memory[pointer]
      last == MemLength(memory) - 1
  IN
  /\ Executes("+") =>
       /\ memory' = [memory EXCEPT ![pointer] = IF cell = 255 THEN 0 ELSE cell + 1]
       /\ pointer' = pointer
  /\ Executes("-") =>
       /\ memory' = [memory EXCEPT ![pointer] = IF cell = 0 THEN 255 ELSE cell - 1]
       /\ pointer' = pointer
  /\ Executes("<") =>
       /\ pointer' = IF pointer = 0 THEN last ELSE pointer - 1
       /\ memory' = memory
  /\ Executes(">") =>
       /\ pointer' = IF pointer = last THEN 0 ELSE pointer + 1
       /\ memory' = memory

\* C2 (256 times): after the 256 `+` of WrapProgram the cell holds the value
\* that was printed before the first of them.
C2_Round ==
  (source = WrapProgram /\ pc = "loop" /\ codePointer = 258) =>
     (Len(output) = 1 /\ memory[pointer] = output[1])

\* C2: tape arithmetic and movement wrap; 256 increments return a cell to
\* its starting value.
C2_Wraparound == [][C2_Step]_vars /\ []C2_Round

\* WrapProgram has run to its end from a cell holding 255: the first `+`
\* wrapped to 0, the `-` after the clear wrapped to 255, and the cursor went
\* off the left end and came back over the right end.
C2_Witness ==
  /\ source = WrapProgram
  /\ pc = "reported"
  /\ result.output = <<255, 255>>
  /\ memory[0] = 255
  /\ pointer = 0
  /\ execCount[263] = 1 /\ execCount[264] = 1

\* C3: the Hello World program of the README, run without debug, completes
\* with output "Hello World!\n", and neither guard fires during the run.
C3_HelloWorld ==
  (source = HelloWorld /\ ~debug) =>
     /\ reason \notin {"iteration-limit-exceeded", "infinite-loop-suspected"}
     /\ Returned => (result.status = "completed" /\ result.output = HelloText)

C3_Witness ==
  /\ source = HelloWorld
  /\ pc = "reported"
  /\ report.printed = "Output"
  /\ report.output = HelloText

\* C4: `++++[>++++<-]>.` executes its loop body exactly 4 times and completes
\* with cell 0 = 0, cell 1 = 16 and the single output character 16.
C4_BracketSemantics ==
  (source = BracketProgram) =>
     /\ \A i \in 5..12 : execCount[i] <= 4
     /\ Returned =>
          /\ result.status = "completed"
          /\ \A i \in 5..12 : execCount[i] = 4
          /\ execCount[4] = 1
          /\ memory[0] = 0 /\ memory[1] = 16
          /\ result.output = <<16>>

C4_Witness ==
  /\ source = BracketProgram
  /\ pc = "reported"
  /\ execCount[11] = 4
  /\ memory[1] = 16

NoOpOnly(src) == \A i \in 1..Len(src) : src[i] \notin Instructions \cup {Marker}

NoOpOutcome ==
  /\ result.status = "completed"
  /\ result.output = <<>>
  /\ result.iterations = Len(source)
  /\ \A i \in DOMAIN execCount : execCount[i] = 1
  /\ ZeroTape /\ pointer = 0

\* C5 as stated: every program made only of unrecognised characters
\* completes with empty output, one cycle per character and an untouched
\* tape.
C5_Original == (NoOpOnly(source) /\ Returned) => NoOpOutcome

\* C5 as amended: every such program of at most ceiling + 1 characters
\* completes with empty output, one cycle per character and an untouched
\* tape.
C5_NoOps ==
  (NoOpOnly(source) /\ Len(source) <= maxIterations + 1 /\ Returned) => NoOpOutcome

C5_Witness ==
  /\ NoOpOnly(source)
  /\ Len(source) = maxIterations + 1
  /\ pc = "reported"
  /\ report.status = "completed"

RECURSIVE SumTo(_, _)
SumTo(f, n) == IF n = 0 THEN 0 ELSE f[n - 1] + SumTo(f, n - 1)

\* The number of instructions executed so far.
Executed == SumTo(execCount, Len(code))

\* C6 as stated: `+[]` ends as `terminated` because the iteration cap fires.
C6_Original ==
  (source = TightLoop /\ Returned) =>
     (result.status = "terminated" /\ reason = "iteration-limit-exceeded")

\* C6 as amended: with a ceiling of at least 4, `+[]` ends as `terminated`
\* because the infinite-loop heuristic fires in the fifth cycle; the
\* iteration cap is not reached.
C6_TightLoop ==
  (source = TightLoop /\ maxIterations >= 4 /\ Returned) =>
     /\ result.status = "terminated"
     /\ reason = "infinite-loop-suspected"
     /\ result.iterations = 5
     /\ Executed = 4

C6_Witness ==
  /\ source = TightLoop
  /\ ~debug
  /\ pc = "reported"
  /\ report.printed = "Partial Output"
  /\ samePositionCount = 2
  /\ Cardinality(loopHistory) = 1

\* C7: the iteration cap is exact: no run executes more than ceiling
\* instructions.
C7_CapExact == Executed <= maxIterations

\* C8: every run without debug, with a line always typed at `,`, eventually
\* returns, also when the program has an unmatched bracket.  (It fails on a
\* scan that leaves the text: the while loop of lines 229-233 or 239-243
\* then runs for ever with bracketCount > 0.)
C8_Terminates == <>Returned

\* C9: whenever a run returns, the returned output (and the output the run
\* command reports) is the sequence of characters the executed `.`
\* instructions emitted, in order, also when the run was cut short.
C9_OutputPreserved ==
  result.returned =>
     /\ result.output = emitted
     /\ (pc = "reported" => report.output = emitted)

\* A run cut short by the iteration cap after several `.` reports them all.
C9_Witness ==
  /\ pc = "reported"
  /\ report.status = "terminated"
  /\ reason = "iteration-limit-exceeded"
  /\ Len(report.output) >= 2
  /\ report.output = emitted

\* C10: once the SIGINT handler has run and the process has stopped, the
\* output accumulated so far has been returned to the caller as the result
\* of a terminated run.
C10_InterruptReturnsOutput ==
  (pc = "exited") =>
     /\ result.returned
     /\ result.status = "terminated"
     /\ result.output = output

\* C11: once an interrupt has been raised, no further instruction is started:
\* a step taken while the interrupt is pending executes an instruction only
\* when that instruction was already in progress (the run was between
\* showDebugInfo and the switch).
C11_InterruptObserved ==
  [][(sigint = "pending" /\ pc # "execute") => execCount' = execCount]_vars

\* The 0-based indices of the markers in a source text.
MarkerIndices(src) == {i \in 0..(Len(src) - 1) : src[i + 1] = Marker}

\* For each marker, the index in the marker-stripped stream of the
\* instruction that followed it in the source text.
FollowingInstructions(src) ==
  {i - Cardinality({j \in MarkerIndices(src) : j < i}) : i \in MarkerIndices(src)}

\* C12: in debug mode a cycle that is about to execute an instruction that
\* followed a marker in the source text pauses for a command first.
C12_BreakpointsAligned ==
  [][(debug /\ pc = "loop" /\ pc' \in {"command", "delay"}
        /\ codePointer \in FollowingInstructions(source))
     => pc' = "command"]_vars

C13_State ==
  (source = BreakpointProgram /\ debug) =>
     /\ Cardinality(breakpoints) = 1
     /\ (pc = "command" /\ ~stepMode) => (codePointer = 2 /\ memory[pointer] = 2)
     /\ memory[0] <= 3

C13_Step ==
  (source = BreakpointProgram /\ debug /\ pc = "loop" /\ codePointer = 2
     /\ iterations' # iterations)
  => (pc' = "command" /\ memory[pointer] = 2)

\* C13: for the source `++#+.` in debug mode the breakpoint set has exactly
\* one position, and the cycle that is about to take the cell from 2 to its
\* final value 3 pauses for a command while the cell still holds 2.
C13_BreakpointExtraction == []C13_State /\ [][C13_Step]_vars

C13_Witness ==
  /\ source = BreakpointProgram
  /\ debug
  /\ pc = "command"
  /\ ~stepMode
  /\ codePointer = 2
  /\ memory[pointer] = 2

\* The step is showDebugInfo reading a command.
ReadsCommand == pc = "command" /\ pc' = "execute"

C14_Quit == (reason = "user-quit" /\ Returned) => result.status = "terminated"

\* C14 as stated: at a pause `c` clears step mode, `s` sets it, `q` clears
\* the running flag (and the run then ends as `terminated`), and any other
\* input leaves both unchanged.
C14_Original ==
  /\ [][ReadsCommand =>
          /\ command' = "c" => (stepMode' = FALSE /\ isRunning' = isRunning)
          /\ command' = "s" => (stepMode' = TRUE /\ isRunning' = isRunning)
          /\ command' = "q" => (isRunning' = FALSE /\ stepMode' = stepMode)
          /\ command' \notin {"c", "s", "q"} =>
               (stepMode' = stepMode /\ isRunning' = isRunning)]_vars
  /\ []C14_Quit

\* C14 as amended: the same, with the three commands read in either letter
\* case; any input other than c, s, q, C, S, Q leaves both unchanged.
C14_CommandTransitions ==
  /\ [][ReadsCommand =>
          /\ command' \in {"c", "C"} => (stepMode' = FALSE /\ isRunning' = isRunning)
          /\ command' \in {"s", "S"} => (stepMode' = TRUE /\ isRunning' = isRunning)
          /\ command' \in {"q", "Q"} => (isRunning' = FALSE /\ stepMode' = stepMode)
          /\ command' \notin {"c", "C", "s", "S", "q", "Q"} =>
               (stepMode' = stepMode /\ isRunning' = isRunning)]_vars
  /\ []C14_Quit

\* `Q` was typed at a pause in step mode.
C14_Witness ==
  /\ pc = "execute"
  /\ command = "Q"
  /\ stepMode
  /\ ~isRunning

\* C15: after `q` at a debug pause no further instruction is executed: the
\* step that follows the pause leaves the tape, the cursor, the output and
\* the instruction pointer as they were and does not ask for a `,` input.
C15_QuitExecutesNothing ==
  [][(pc = "execute" /\ reason = "user-quit" /\ ~isRunning) =>
       /\ execCount' = execCount
       /\ memory' = memory /\ pointer' = pointer
       /\ output' = output /\ codePointer' = codePointer
       /\ pc' # "input"]_vars

\* How many of the characters at the 0-based indices i..j of c are ch.
CountOf(c, ch, i, j) == Cardinality({k \in i..j : CharAt(c, k) = ch})

\* Every `]` closes an earlier `[` and every `[` is closed.
Balanced(c) ==
  /\ \A j \in 0..(Len(c) - 1) : CountOf(c, "[", 0, j) >= CountOf(c, "]", 0, j)
  /\ CountOf(c, "[", 0, Len(c) - 1) = CountOf(c, "]", 0, Len(c) - 1)

\* The matching-bracket table: for a `[` at i the first j after it at which
\* the brackets of i..j are balanced, for a `]` at j the last such i before it.
MatchClose(c, i) ==
  CHOOSE j \in (i + 1)..(Len(c) - 1) :
    /\ CountOf(c, "[", i, j) = CountOf(c, "]", i, j)
    /\ \A k \in (i + 1)..(j - 1) : CountOf(c, "[", i, k) # CountOf(c, "]", i, k)

MatchOpen(c, j) ==
  CHOOSE i \in 0..(j - 1) :
    /\ CountOf(c, "[", i, j) = CountOf(c, "]", i, j)
    /\ \A k \in (i + 1)..(j - 1) : CountOf(c, "[", k, j) # CountOf(c, "]", k, j)

C17_Scanning ==
  Balanced(code) =>
     /\ pc = "scanForward" =>
          /\ CharAt(code, lastCodePointer) = "["
          /\ lastCodePointer <= codePointer
          /\ codePointer < MatchClose(code, lastCodePointer)
     /\ pc = "scanBackward" =>
          /\ CharAt(code, lastCodePointer) = "]"
          /\ codePointer <= lastCodePointer
          /\ MatchOpen(code, lastCodePointer) < codePointer

C17_Step ==
  Balanced(code) =>
     /\ (pc = "scanForward" /\ pc' = "loop") =>
          codePointer' = MatchClose(code, lastCodePointer) + 1
     /\ (pc = "scanBackward" /\ pc' = "loop") =>
          codePointer' = MatchOpen(code, lastCodePointer) + 1
     /\ (Executes("[") /\ memory[pointer] = 0) => pc' = "scanForward"
     /\ (Executes("]") /\ memory[pointer] # 0) => pc' = "scanBackward"
     /\ (Executes("[") /\ memory[pointer] # 0) =>
          (pc' = "loop" /\ codePointer' = codePointer + 1)
     /\ (Executes("]") /\ memory[pointer] = 0) =>
          (pc' = "loop" /\ codePointer' = codePointer + 1)
     /\ (Executes("[") \/ Executes("]") \/ pc \in {"scanForward", "scanBackward"}) =>
          (memory' = memory /\ pointer' = pointer /\ output' = output)

RefStart(len, lines) ==
  [memory |-> [i \in 0..(len - 1) |-> 0], pointer |-> 0, output |-> <<>>,
   codePointer |-> 0, iterations |-> 0, isRunning |-> TRUE, loopHistory |-> {},
   lastCodePointer |-> -1, samePositionCount |-> 0, lines |-> lines,
   stuck |-> FALSE]

\* Lines 229-233: where the forward scan from cp stops, -1 if it never does.
RECURSIVE RefScanForward(_, _, _)
RefScanForward(c, cp, count) ==
  LET at == cp + 1 IN
  IF at >= Len(c) THEN -1
  ELSE LET n == CountForward(count, CharAt(c, at)) IN
       IF n > 0 THEN RefScanForward(c, at, n) ELSE at

\* Lines 239-243: where the backward scan from cp stops, -1 if it never does.
RECURSIVE RefScanBackward(_, _, _)
RefScanBackward(c, cp, count) ==
  LET at == cp - 1 IN
  IF at < 0 THEN -1
  ELSE LET n == CountBackward(count, CharAt(c, at)) IN
       IF n > 0 THEN RefScanBackward(c, at, n) ELSE at

\* Lines 206-247: the switch and the codePointer++ after it.
RefExecute(c, st) ==
  LET ins == CharAt(c, st.codePointer)
      cell == st.memory[st.pointer]
      len == MemLength(st.memory)
      step == [st EXCEPT !.codePointer = @ + 1]
      Jump(to) == IF to < 0 THEN [st EXCEPT !.stuck = TRUE]
                  ELSE [st EXCEPT !.codePointer = to + 1]
  IN
  IF ins = ">" THEN [step EXCEPT !.pointer = MoveRight(st.pointer, len)]
  ELSE IF ins = "<" THEN [step EXCEPT !.pointer = MoveLeft(st.pointer, len)]
  ELSE IF ins = "+" THEN [step EXCEPT !.memory[st.pointer] = ToUint8(Increment(cell))]
  ELSE IF ins = "-" THEN [step EXCEPT !.memory[st.pointer] = ToUint8(Decrement(cell))]
  ELSE IF ins = "." THEN [step EXCEPT !.output = Append(@, FromCharCode(cell))]
  ELSE IF ins = ","
       THEN IF st.lines = <<>> THEN [st EXCEPT !.stuck = TRUE]
            ELSE [step EXCEPT !.memory[st.pointer] = ToUint8(CharCodeAt0(Head(st.lines))),
                              !.lines = Tail(@)]
  ELSE IF ins = "[" /\ SkipLoop(cell) THEN Jump(RefScanForward(c, st.codePointer, 1))
  ELSE IF ins = "]" /\ RepeatLoop(cell) THEN Jump(RefScanBackward(c, st.codePointer, 1))
  ELSE step

\* Lines 174-247: the while loop.
RECURSIVE RefRun(_, _, _)
RefRun(c, max, st) ==
  IF st.stuck \/ ~(st.codePointer < Len(c) /\ st.isRunning) THEN st
  ELSE IF CapExceeded(st.iterations, max)
  THEN [st EXCEPT !.iterations = @ + 1, !.isRunning = FALSE]
  ELSE LET g == LoopGuard(st.codePointer, st.lastCodePointer, st.samePositionCount,
                          st.pointer, st.memory[st.pointer], st.loopHistory)
           counted == [st EXCEPT !.iterations = @ + 1,
                                 !.samePositionCount = g.count,
                                 !.loopHistory = g.history]
       IN IF g.fire THEN [counted EXCEPT !.isRunning = FALSE]
          ELSE RefRun(c, max,
                      RefExecute(c, [counted EXCEPT !.lastCodePointer = st.codePointer]))

\* C16: for a source without markers, a returned run (in debug mode or not)
\* has the output, iteration count, status, tape and cursor that the run
\* without debug computes from the program and the lines typed at `,`; and
\* a debug run of such a source never asks for a command nor enters step mode.
C16_DebugEquivalent ==
  MarkerIndices(source) = {} =>
     /\ debug => (pc # "command" /\ ~stepMode /\ command = "none")
     /\ Returned =>
          LET ref == RefRun(code, maxIterations, RefStart(MemLength(memory), typed)) IN
          /\ ~ref.stuck
          /\ ref.lines = <<>>
          /\ result = Result(ref.output, ref.iterations, ref.isRunning)
          /\ memory = ref.memory
          /\ pointer = ref.pointer

\* A debug run of a marker-free program has returned after reading a line,
\* writing output and executing a `]`.
C16_Witness ==
  /\ debug
  /\ MarkerIndices(source) = {}
  /\ Returned
  /\ typed # <<>>
  /\ output # <<>>
  /\ \E i \in DOMAIN execCount : CharAt(code, i) = "]" /\ execCount[i] > 0

\* showDebugInfo returns to the loop body, after a command or after the delay.
ShowDebugInfoReturns == pc \in {"command", "delay"} /\ pc' = "execute"

\* C18: showDebugInfo, whatever command it receives, leaves the tape, the
\* cursor, the instruction pointer, the output and the iteration counter
\* unchanged, and of the remaining engine state changes nothing but the
\* step-mode flag and the running flag.
C18_DebugFrame ==
  [][ShowDebugInfoReturns =>
       /\ memory' = memory
       /\ pointer' = pointer
       /\ codePointer' = codePointer
       /\ output' = output
       /\ iterations' = iterations
       /\ UNCHANGED <<code, breakpoints, guardVars, bracketCount>>]_vars

\* showDebugInfo has returned from an `s` typed while output had accumulated.
C18_Witness ==
  /\ pc = "execute"
  /\ command = "s"
  /\ stepMode
  /\ output # <<>>
  /\ iterations > 1

C19_State ==
  debug =>
     /\ pc = "delay" => (~stepMode /\ codePointer \notin breakpoints)
     /\ (pc = "command" /\ ~stepMode) => codePointer \in breakpoints
     /\ (pc = "execute" /\ stepMode) => command # "none"

C19_Step ==
  /\ (ReadsCommand /\ ToLowerCase(command') = "s") => stepMode'
  /\ (ReadsCommand /\ ToLowerCase(command') = "c") => ~stepMode'
  /\ stepMode' # stepMode => (ReadsCommand /\ ToLowerCase(command') \in {"s", "c"})
  /\ (debug /\ stepMode /\ pc = "loop" /\ pc' \notin {"loop", "returned"}) =>
       pc' = "command"
  /\ (debug /\ execCount' # execCount) => (pc = "execute" /\ pc' # "execute")

\* C19: in debug mode `s` turns step mode on and only `c` turns it off; while
\* it is on, every cycle that goes on to execute an instruction first stops
\* at the command prompt; while it is off, the prompt appears only at a
\* recorded breakpoint position; and an instruction is executed only on
\* return from showDebugInfo.
C19_StepMode == []C19_State /\ [][C19_Step]_vars

\* In step mode, entered by `s`, a second instruction is about to be executed
\* after a pause at a position that is not a breakpoint.
C19_Witness ==
  /\ debug
  /\ stepMode
  /\ pc = "execute"
  /\ command = ""
  /\ codePointer \notin breakpoints
  /\ codePointer > 0
  /\ execCount[codePointer - 1] > 0

\* A cycle that gets past the iteration ceiling and so reaches the loop guard.
GuardedCycle ==
  /\ pc = "loop"
  /\ codePointer < Len(code) /\ isRunning
  /\ iterations' = iterations + 1
  /\ ~CapExceeded(iterations, maxIterations)

CurrentFingerprint == Fingerprint(pointer, codePointer, memory[pointer])

SuspectedLoop == reason' = "infinite-loop-suspected" /\ pc' = "returned"

\* C20 as stated: a cycle that starts with the triple of an earlier cycle of
\* the run is terminated as a suspected infinite loop, whatever the
\* instruction pointer of the previous cycle was.
C20_Original ==
  [][(GuardedCycle /\ \E s \in seen : s[1] = CurrentFingerprint) => SuspectedLoop]_vars

C20_State ==
  Cardinality(seen) <= HISTORY_LIMIT =>
     loopHistory = {s[1] : s \in {t \in seen : t[2]}}

C20_Step ==
  GuardedCycle =>
     /\ (codePointer = lastCodePointer /\ <<CurrentFingerprint, TRUE>> \in seen) =>
          SuspectedLoop
     /\ (SuspectedLoop /\ samePositionCount < SAME_POSITION_LIMIT) =>
          (codePointer = lastCodePointer /\ <<CurrentFingerprint, TRUE>> \in seen)
     /\ codePointer # lastCodePointer =>
          /\ ~SuspectedLoop
          /\ loopHistory' = loopHistory
          /\ samePositionCount' = 0

\* C20 as amended: the fingerprint is looked up, and recorded, only in a
\* cycle whose instruction pointer equals that of the previous cycle; such a
\* cycle ends the run when its triple was recorded by an earlier such cycle,
\* and a cycle at a different instruction pointer is never ended by the
\* heuristic and records nothing.
C20_SamePositionOnly == []C20_State /\ [][C20_Step]_vars

\* A debug run was ended by the heuristic at a triple that an earlier cycle
\* had met at a different previous position without consequence.
C20_Witness ==
  /\ debug
  /\ reason = "infinite-loop-suspected"
  /\ pc = "returned"
  /\ <<CurrentFingerprint, FALSE>> \in seen
  /\ <<CurrentFingerprint, TRUE>> \in seen

\* A call that adds a fingerprint to the history set.
AddsFingerprint == loopHistory' # loopHistory

\* C21: between calls the history set never holds more than 1000
\* fingerprints, and the call that adds the 1000th fingerprint clears it.
C21_HistoryCapped ==
  [][/\ Cardinality(loopHistory') <= HISTORY_LIMIT
     /\ (AddsFingerprint /\ Cardinality(loopHistory) = HISTORY_LIMIT - 1)
          => loopHistory' = {}]_vars

\* C22: in the modular interpreter a debug cycle at a recorded breakpoint
\* position, or in step mode, asks for a command before its instruction is
\* executed, and the step mode the pause routine tests is the engine's.
C22_ModularPause ==
  /\ [][(modular /\ debug /\ pc = "loop" /\ pc' \notin {"loop", "returned"}
           /\ Pauses(stepMode, breakpoints, codePointer))
        => pc' = "command"]_vars
  /\ [](modular => capturedStepMode = stepMode)

\* The modular interpreter never asks for a command.
ModularNeverPrompts == modular => (pc # "command" /\ ~stepMode)

\* The engine state as the whole-run function sees it.
EngineState ==
  [memory |-> memory, pointer |-> pointer, output |-> output,
   codePointer |-> codePointer, iterations |-> iterations,
   isRunning |-> TRUE, loopHistory |-> loopHistory,
   lastCodePointer |-> lastCodePointer,
   samePositionCount |-> samePositionCount, lines |-> <<>>, stuck |-> FALSE]

\* Executing the instruction at codePointer would change neither the tape nor
\* the cursor nor the instruction pointer: without the guard the run repeats
\* this cycle for ever.
Spins ==
  LET after == RefExecute(code, EngineState) IN
  /\ ~after.stuck
  /\ after.codePointer = codePointer
  /\ after.memory = memory
  /\ after.pointer = pointer

\* C23: when a run of a program with balanced brackets has been ended as a
\* suspected infinite loop, the instruction pointer is at a `]` directly
\* after a `[`, the current cell is not zero, and executing from there would
\* repeat the same state for ever.
C23_NoFalsePositive ==
  (Balanced(code) /\ reason = "infinite-loop-suspected") =>
     /\ codePointer > 0
     /\ CharAt(code, codePointer) = "]"
     /\ CharAt(code, codePointer - 1) = "["
     /\ memory[pointer] # 0
     /\ Spins

\* A balanced program whose empty loop was entered on a cell that was read
\* from the input has been ended by the heuristic.
C23_Witness ==
  /\ Balanced(code)
  /\ reason = "infinite-loop-suspected"
  /\ typed # <<>>
  /\ pc = "reported"

C24_State ==
  Balanced(code) =>
     /\ Cardinality(loopHistory) <= 1
     /\ samePositionCount <= 2

C24_Step ==
  (Balanced(code) /\ GuardedCycle /\ codePointer = lastCodePointer) =>
     /\ samePositionCount = 0 =>
          (~SuspectedLoop /\ loopHistory = {} /\ loopHistory' = {CurrentFingerprint})
     /\ samePositionCount = 1 =>
          (SuspectedLoop /\ samePositionCount' = 2 /\ loopHistory' = loopHistory)
     /\ samePositionCount < 2

\* C24: in a run of a program with balanced brackets the loop history never
\* holds more than one fingerprint and the same-position counter never
\* passes 2: the first cycle that repeats the previous instruction pointer
\* records its fingerprint, the second one finds it and ends the run, so
\* neither the counter's limit of 1000 nor the clearing of the history is
\* ever reached.
C24_GuardFiresAtSecondRepeat == []C24_State /\ [][C24_Step]_vars

\* `-[]` has been ended by the guard with the counter at 2 and one
\* fingerprint recorded.
C24_Witness ==
  /\ Balanced(code)
  /\ pc = "returned"
  /\ samePositionCount = 2
  /\ loopHistory = {Fingerprint(0, 2, 255)}

C25_State ==
  Balanced(code) =>
     /\ pc = "loop" => codePointer \in 0..Len(code)
     /\ pc = "scanForward" => (codePointer + 1) \in 0..(Len(code) - 1)
     /\ pc = "scanBackward" => (codePointer - 1) \in 0..(Len(code) - 1)
     /\ iterations <= maxIterations + 2
     /\ Returned => result.iterations <= maxIterations + 2
     /\ pc = "reported" => report.iterations <= maxIterations + 2

\* C25: in a run without debug of a program with balanced brackets, with a
\* line typed at every `,`, the instruction pointer is within 0..length at
\* the start of every cycle, every index a bracket scan reads is within the
\* text, the run returns, and it takes (and reports) at most ceiling + 2
\* cycles.
C25_BoundedRun == []C25_State /\ (Balanced(code) => <>Returned)

\* NestedProgram, whose scans run in both directions, was cut short in cycle
\* ceiling + 2.
C25_Witness ==
  /\ source = NestedProgram
  /\ pc = "reported"
  /\ report.iterations = maxIterations + 2
  /\ report.status = "terminated"

TypeOK ==
  /\ pc \in {"loop", "command", "delay", "execute", "input", "scanForward",
             "scanBackward", "returned", "reported", "exited"}
  /\ pointer \in DOMAIN memory
  /\ iterations \in Nat
  /\ modular \in BOOLEAN
  /\ capturedStepMode \in BOOLEAN
  /\ typed \in Seq(InputLines \cup ByteLines)
  /\ Len(typed) <= iterations
====
